---- MODULE Spec2Model ----
(***************************************************************************)
(* Document verification front end: content fingerprinting of a selected   *)
(* file and the verification reconciler (verifyBtn.onclick) of the three   *)
(* front-end scripts of the repository:                                    *)
(*   "script"  src/frontend/script.js                                      *)
(*   "web3"    src/unnamed/part_000, lines 1-657   (web3 / MetaMask script) *)
(*   "ethers"  src/unnamed/part_000, lines 659-1998 (ethers script)        *)
(* JavaScript strings are sequences of one-character strings, so that      *)
(* toLowerCase, replace(/^0x/, ""), includes and trim are computed.        *)
(***************************************************************************)
EXTENDS Integers, Sequences, FiniteSets, TLC

----------------------------------------------------------------------------
(* Bounds *)

\* number of distinct files the user can pick
NumFiles == 2
\* length in bytes of the digest (32 for SHA-256)
DigestBytes == 1
\* maximal number of records in a /api/documents reply
MaxDocs == 2

----------------------------------------------------------------------------
(* JavaScript strings *)

Uppers == <<"A", "B", "C", "D", "E", "F", "G", "H", "I", "J", "K", "L", "M",
            "N", "O", "P", "Q", "R", "S", "T", "U", "V", "W", "X", "Y", "Z">>
Lowers == <<"a", "b", "c", "d", "e", "f", "g", "h", "i", "j", "k", "l", "m",
            "n", "o", "p", "q", "r", "s", "t", "u", "v", "w", "x", "y", "z">>

\* String.prototype.toLowerCase, one character
LowerChar(c) ==
  IF \E i \in 1..26 : Uppers[i] = c
    THEN Lowers[CHOOSE i \in 1..26 : Uppers[i] = c]
    ELSE c

\* String.prototype.toUpperCase, one character (used to build backend replies)
UpperChar(c) ==
  IF \E i \in 1..26 : Lowers[i] = c
    THEN Uppers[CHOOSE i \in 1..26 : Lowers[i] = c]
    ELSE c

\* s.toLowerCase()
toLowerCase(s) == [i \in 1..Len(s) |-> LowerChar(s[i])]

\* s.toUpperCase()
toUpperCase(s) == [i \in 1..Len(s) |-> UpperChar(s[i])]

\* s.includes(t)
includes(s, t) ==
  \E i \in 1..(Len(s) - Len(t) + 1) : SubSeq(s, i, i + Len(t) - 1) = t

\* s.replace(/^0x/, ""): the pattern has no i flag, only a lower-case x matches
replace0x(s) ==
  IF Len(s) >= 2 /\ s[1] = "0" /\ s[2] = "x" THEN SubSeq(s, 3, Len(s)) ELSE s

\* s.trim()
RECURSIVE trim(_)
trim(s) ==
  IF s = <<>> THEN s
  ELSE IF Head(s) = " " THEN trim(Tail(s))
  ELSE IF s[Len(s)] = " " THEN trim(SubSeq(s, 1, Len(s) - 1))
  ELSE s

\* the hash normalisation of the reconciler: x.replace(/^0x/, "").toLowerCase()
Normalize(s) == toLowerCase(replace0x(s))

S_Computing == <<"C", "o", "m", "p", "u", "t", "i", "n", "g", ".", ".", ".">>
S_NA == <<"N", "/", "A">>
S_Error == <<"E", "r", "r", "o", "r">>
S_unknown == <<"u", "n", "k", "n", "o", "w", "n">>
S_not == <<"n", "o", "t">>
S_register == <<"r", "e", "g", "i", "s", "t", "e", "r">>
S_found == <<"f", "o", "u", "n", "d">>
S_not_on == <<"n", "o", "t", " ", "o", "n">>
S_not_registered == <<"n", "o", "t", "_", "r", "e", "g", "i", "s", "t", "e", "r", "e", "d">>
S_tamper == <<"t", "a", "m", "p", "e", "r">>
S_mismatch == <<"m", "i", "s", "m", "a", "t", "c", "h">>
S_hash_mismatch == <<"h", "a", "s", "h", " ", "m", "i", "s", "m", "a", "t", "c", "h">>

----------------------------------------------------------------------------
(* JavaScript values found in JSON replies *)

Undef == [t |-> "undefined", s |-> <<>>, n |-> 0]
Str(s) == [t |-> "string", s |-> s, n |-> 0]
Num(n) == [t |-> "number", s |-> <<>>, n |-> n]
Bool(b) == [t |-> "boolean", s |-> <<>>, n |-> IF b THEN 1 ELSE 0]

\* truthiness of a value, as in `if (x)`, `x || y`, Boolean(x)
Truthy(v) ==
  \/ v.t = "string" /\ v.s # <<>>
  \/ v.t = "number" /\ v.n # 0
  \/ v.t = "boolean" /\ v.n = 1

Digits == <<"0", "1", "2", "3", "4", "5", "6", "7", "8", "9",
            "a", "b", "c", "d", "e", "f">>

\* Number.prototype.toString(radix) of a natural number
RECURSIVE NumToString(_, _)
NumToString(n, radix) ==
  IF n < radix THEN <<Digits[n + 1]>>
  ELSE NumToString(n \div radix, radix) \o <<Digits[(n % radix) + 1]>>

\* String(v)
String(v) ==
  CASE v.t = "string" -> v.s
    [] v.t = "number" -> NumToString(v.n, 10)
    [] v.t = "boolean" -> IF v.n = 1 THEN <<"t", "r", "u", "e">>
                                     ELSE <<"f", "a", "l", "s", "e">>
    [] OTHER -> <<"u", "n", "d", "e", "f", "i", "n", "e", "d">>

\* a || b
Or(a, b) == IF Truthy(a) THEN a ELSE b

----------------------------------------------------------------------------
(* Hasher: handleFile, lines 155-158 of script.js *)

Files == 1..NumFiles

\* crypto.subtle.digest("SHA-256", buffer): an injective stand-in that gives
\* each file its own byte sequence, with bytes below and above 16
DigestOf(f) == [i \in 1..DigestBytes |-> (171 + (f - 1) * 97 + (i - 1) * 31) % 256]

\* the text left as toString(16) gives it, without padding
padStartNone(s) == s

\* s.padStart(2, "0")
padStart2(s) == IF Len(s) < 2 THEN <<"0">> \o s ELSE s

\* array.join("")
RECURSIVE join(_)
join(a) == IF a = <<>> THEN <<>> ELSE Head(a) \o join(Tail(a))

\* hashArray.map(b => b.toString(16).padStart(2, "0")).join("")
generatedHash(f) ==
  join([i \in 1..DigestBytes |-> padStart2(NumToString(DigestOf(f)[i], 16))])

----------------------------------------------------------------------------
(* Replies of the backend *)

R_hash_mismatch == <<"h", "a", "s", "h", " ", "m", "i", "s", "m", "a", "t", "c", "h">>
R_Hash_Mismatch == <<"H", "a", "s", "h", " ", "M", "i", "s", "m", "a", "t", "c", "h">>
R_not_found == <<"n", "o", "t", " ", "f", "o", "u", "n", "d">>
R_tampered == <<"t", "a", "m", "p", "e", "r", "e", "d">>
R_both == <<"n", "o", "t", " ", "f", "o", "u", "n", "d", " ", "o", "r", " ",
            "t", "a", "m", "p", "e", "r", "e", "d">>
R_unknown == <<"u", "n", "k", "n", "o", "w", "n">>

\* the parsed body of a /verify reply; null is the JSON value null
Data(v, r, sh, id, tx) ==
  [null |-> FALSE, verified |-> v, reason |-> r, stored_hash |-> sh,
   documentID |-> id, blockchain_tx |-> tx, computed_hash |-> Undef]
NullData ==
  [null |-> TRUE, verified |-> Undef, reason |-> Undef, stored_hash |-> Undef,
   documentID |-> Undef, blockchain_tx |-> Undef, computed_hash |-> Undef]

VerifiedVals == {Undef, Bool(TRUE), Bool(FALSE)}
ReasonVals ==
  {Undef, Str(R_hash_mismatch), Str(R_Hash_Mismatch), Str(R_not_found),
   Str(R_tampered), Str(R_both), Str(R_unknown), Num(42)}

\* the renderings of one digest a heterogeneous backend may send
Renderings(h) ==
  {h, toUpperCase(h), <<"0", "x">> \o h, <<"0", "x">> \o toUpperCase(h),
   <<"0", "X">> \o toUpperCase(h)}

HashStrings ==
  Renderings(generatedHash(1)) \cup {generatedHash(f) : f \in Files}
StoredHashVals ==
  {Undef, Str(<<>>), Str(<<"0", "x">>)} \cup {Str(h) : h \in HashStrings}
\* identifiers are strings when present, as in the reply shapes of the backend
DocIdVals == {Undef, Str(<<"d", "0">>)}
TxVals == {Undef, Str(<<"0", "x", "T", "0">>)}

\* the bodies a /verify reply can carry
JsonReplies ==
  {Data(v, r, sh, id, tx) : v \in VerifiedVals, r \in ReasonVals,
     sh \in StoredHashVals, id \in DocIdVals, tx \in TxVals}

\* a /verify reply: the request rejects ("throw"), the body is not JSON
\* ("unparsable"), or it parses to a value
NoReply == [kind |-> "none", data |-> NullData]
Replies ==
  {[kind |-> "throw", data |-> NullData],
   [kind |-> "unparsable", data |-> NullData],
   [kind |-> "json", data |-> NullData]}
  \cup {[kind |-> "json", data |-> d] : d \in JsonReplies}

\* an element of the /api/documents array; null is the JSON value null
Doc(id, fh, tx) ==
  [null |-> FALSE, documentID |-> id, fileHash |-> fh, blockchainTx |-> tx]
NullDoc ==
  [null |-> TRUE, documentID |-> Undef, fileHash |-> Undef, blockchainTx |-> Undef]

DocHashVals ==
  {Undef, Str(<<"0", "x">> \o toUpperCase(generatedHash(1))),
   Str(<<"0", "X">> \o toUpperCase(generatedHash(1)))}
  \cup {Str(generatedHash(f)) : f \in Files \ {1}}

\* the server assigns documentID by position
DocsAt(i) ==
  {NullDoc} \cup
  {Doc(Str(<<"d", Digits[i + 1]>>), fh, tx) : fh \in DocHashVals, tx \in TxVals}

RECURSIVE DocLists(_)
DocLists(n) ==
  IF n = 0 THEN {<<>>}
  ELSE LET shorter == DocLists(n - 1)
       IN shorter \cup
          {Append(l, d) : l \in {x \in shorter : Len(x) = n - 1}, d \in DocsAt(n)}

\* a /api/documents reply: the request rejects, the body is not JSON, the
\* body is a JSON object that is not an array, or it is an array
NoListing == [kind |-> "none", docs |-> <<>>]
Listings ==
  {[kind |-> "throw", docs |-> <<>>],
   [kind |-> "unparsable", docs |-> <<>>],
   [kind |-> "object", docs |-> <<>>]}
  \cup {[kind |-> "array", docs |-> l] : l \in DocLists(MaxDocs)}

----------------------------------------------------------------------------
(* State *)

VARIABLES
  variant,             \* which of the three front-end scripts runs
  uploadedFile,        \* let uploadedFile: 0 is null, otherwise the file
  hashValue,           \* hashValue.textContent
  hashing,             \* files whose digest computation is pending in handleFile
  verifyBtnDisabled,   \* verifyBtn.disabled
  registerBtnDisabled, \* registerBtn.disabled
  loaderHidden,        \* loader.classList.contains("hidden")
  resultDiv,           \* what resultDiv shows
  bcStatus,            \* what bcStatus shows
  toasts,              \* toasts shown by the current verify invocation
  pc,                  \* position of the verify invocation
  computedHash,        \* const computedHash of the verify invocation
  sentFile,            \* the file appended to the /verify form data
  reply,               \* the /verify reply the invocation received
  listing,             \* the /api/documents reply the invocation received
  requests,            \* requests issued by the current verify invocation
  isWalletConnected,   \* let isWalletConnected of the ethers script
  ethersContract,      \* whether let ethersContract holds a contract
  userWalletAddress,   \* let userWalletAddress: 0 is null, 1 is accounts[0]
  currentNetwork,      \* let currentNetwork: 0 is null, otherwise a chain id
  rpc,                 \* position of the register invocation
  attempt,             \* documentID, fileName, fileHash of the register invocation
  got,                 \* the replies the register invocation has received
  calls,               \* calls issued by the current register invocation
  rtoasts              \* toasts shown by the current register invocation

\* the state of the register invocation and of the wallet
regVars ==
  <<isWalletConnected, ethersContract, userWalletAddress, currentNetwork, rpc,
    attempt, got, calls, rtoasts>>

vars ==
  <<variant, uploadedFile, hashValue, hashing, verifyBtnDisabled,
    registerBtnDisabled, loaderHidden, resultDiv, bcStatus, toasts, pc,
    computedHash, sentFile, reply, listing, requests, isWalletConnected,
    ethersContract, userWalletAddress, currentNetwork, rpc, attempt, got, calls,
    rtoasts>>

Variants == {"script", "web3", "ethers"}

\* the content of resultDiv
Result(kind, via, hash, storedHash, documentID, tx, reason) ==
  [kind |-> kind, via |-> via, hash |-> hash, storedHash |-> storedHash,
   documentID |-> documentID, tx |-> tx, reason |-> reason]
NoResult == Result("None", "", Undef, Undef, Undef, Undef, Undef)
PendingResult == Result("Pending", "", Undef, Undef, Undef, Undef, Undef)

\* the value shown when truthy, nothing otherwise: `if (x) html += ...`
Shown(v) == IF Truthy(v) THEN v ELSE Undef

\* setBcStatus(isOnChain, txHash) of script.js and of the web3 script
setBcStatusLegacy(isOnChain, txHash) ==
  IF isOnChain THEN [onChain |-> TRUE, tx |-> Shown(txHash)]
  ELSE [onChain |-> FALSE, tx |-> Undef]

\* setBcStatus(isOnChain, txHash) of the ethers script
setBcStatusEthers(isOnChain, txHash) ==
  IF isOnChain /\ Truthy(txHash) THEN [onChain |-> TRUE, tx |-> txHash]
  ELSE [onChain |-> FALSE, tx |-> Undef]

setBcStatus(v, isOnChain, txHash) ==
  IF v = "ethers" THEN setBcStatusEthers(isOnChain, txHash)
  ELSE setBcStatusLegacy(isOnChain, txHash)

\* what one continuation of the verify handler does: whether it returned
\* (decided), the result it rendered, the status badge, the toasts it showed,
\* whether it called setLoading(false), and the requests it then issued
Effect(decided, result, bc, ts, loadingOff, reqs) ==
  [decided |-> decided, result |-> result, bc |-> bc, toasts |-> ts,
   loadingOff |-> loadingOff, requests |-> reqs]
NoBc == [onChain |-> FALSE, tx |-> Undef, keep |-> TRUE]
SetBc(b) == [onChain |-> b.onChain, tx |-> b.tx, keep |-> FALSE]
NoEffect == Effect(FALSE, NoResult, NoBc, <<>>, FALSE, <<>>)

StatsAndHistoryAfterUpload == <<"/api/upload", "/api/stats", "/api/history">>
StatsAndHistory == <<"/api/stats", "/api/history">>
HistoryOnly == <<"/api/history">>

----------------------------------------------------------------------------
(* Verification reconciler of script.js and of the web3 script *)

\* the reason test of the "not registered" branch
isNotRegisteredReason(reason) ==
  /\ includes(reason, S_not)
  /\ \/ includes(reason, S_register)
     \/ includes(reason, S_found)
     \/ includes(reason, S_not_on)
     \/ includes(reason, S_not_registered)

\* the reason test of the "tampered" branch
isTamperedReason(reason) ==
  \/ includes(reason, S_tamper)
  \/ includes(reason, S_mismatch)
  \/ includes(reason, S_hash_mismatch)

\* verifiedByBackend as it would be if the reason were looked at before the
\* verdict: a reply with verified = true and a reason is not decided here
verifiedByBackendUnlessReason(v, data, comp) ==
  IF ~data.null /\ Truthy(data.verified) /\ ~Truthy(data.reason)
    THEN Effect(TRUE,
                Result("Verified", "backend", Or(data.computed_hash, Str(comp)),
                       Undef, Shown(data.documentID), Shown(data.blockchain_tx),
                       Undef),
                SetBc(setBcStatus(v, Truthy(data.blockchain_tx),
                                  Shown(data.blockchain_tx))),
                <<"verified">>, TRUE, StatsAndHistory)
    ELSE NoEffect

\* if (data && data.verified) { ... return; }
verifiedByBackend(v, data, comp) ==
  IF ~data.null /\ Truthy(data.verified)
    THEN Effect(TRUE,
                Result("Verified", "backend", Or(data.computed_hash, Str(comp)),
                       Undef, Shown(data.documentID), Shown(data.blockchain_tx),
                       Undef),
                SetBc(setBcStatus(v, Truthy(data.blockchain_tx),
                                  Shown(data.blockchain_tx))),
                <<"verified">>, TRUE, StatsAndHistory)
    ELSE NoEffect

\* if (data && data.reason) { ... }
decidedByReason(v, data, comp) ==
  IF ~data.null /\ Truthy(data.reason)
    THEN LET reason == toLowerCase(String(data.reason))
         IN IF isNotRegisteredReason(reason)
              THEN Effect(TRUE,
                          Result("NotRegistered", "reason", Str(comp), Undef,
                                 Undef, Undef, Undef),
                          SetBc(setBcStatus(v, FALSE, Undef)),
                          <<"notRegistered">>, TRUE, StatsAndHistory)
            ELSE IF isTamperedReason(reason)
              THEN Effect(TRUE,
                          Result("Tampered", "reason", Str(comp),
                                 Shown(data.stored_hash), Shown(data.documentID),
                                 Shown(data.blockchain_tx), Undef),
                          SetBc(setBcStatus(v, Truthy(data.blockchain_tx),
                                            Shown(data.blockchain_tx))),
                          <<"tampered">>, TRUE, StatsAndHistory)
            ELSE NoEffect
    ELSE NoEffect

\* decidedByStoredHash as it would be without the branch for equal hashes: an
\* equal stored hash is left to the registry lookup
decidedByStoredHashMismatchOnly(v, data, comp) ==
  IF ~data.null /\ Truthy(data.stored_hash)
    THEN LET stored == Normalize(String(data.stored_hash))
             c == Normalize(comp)
         IN IF stored # <<>> /\ stored # c
              THEN Effect(TRUE,
                          Result("Tampered", "storedHash", Str(comp),
                                 data.stored_hash, Shown(data.documentID),
                                 Shown(data.blockchain_tx), Undef),
                          SetBc(setBcStatus(v, Truthy(data.blockchain_tx),
                                            Shown(data.blockchain_tx))),
                          <<"tampered">>, TRUE, StatsAndHistory)
            ELSE NoEffect
    ELSE NoEffect

\* if (data && data.stored_hash) { ... }
decidedByStoredHash(v, data, comp) ==
  IF ~data.null /\ Truthy(data.stored_hash)
    THEN LET stored == Normalize(String(data.stored_hash))
             c == Normalize(comp)
         IN IF stored # <<>> /\ stored # c
              THEN Effect(TRUE,
                          Result("Tampered", "storedHash", Str(comp),
                                 data.stored_hash, Shown(data.documentID),
                                 Shown(data.blockchain_tx), Undef),
                          SetBc(setBcStatus(v, Truthy(data.blockchain_tx),
                                            Shown(data.blockchain_tx))),
                          <<"tampered">>, TRUE, StatsAndHistory)
            ELSE IF stored # <<>> /\ stored = c
              THEN Effect(TRUE,
                          Result("Verified", "storedHash", Str(comp), Undef,
                                 Shown(data.documentID),
                                 Shown(data.blockchain_tx), Undef),
                          SetBc(setBcStatus(v, Truthy(data.blockchain_tx),
                                            Shown(data.blockchain_tx))),
                          <<"verified">>, TRUE, StatsAndHistory)
            ELSE NoEffect
    ELSE NoEffect

\* the outer catch block
serverError(v) ==
  Effect(TRUE, Result("ServerError", "catch", Undef, Undef, Undef, Undef, Undef),
         SetBc(setBcStatus(v, FALSE, Undef)), <<"serverError">>, TRUE,
         HistoryOnly)

\* try { data = await res.json(); } catch (_) { data = null; }
parsedData(rep) == IF rep.kind = "unparsable" THEN NullData ELSE rep.data

\* verifyOnReply as it would be without the return that ends the tampered
\* branch of the reason test: the handler goes on to the stored hash test and
\* to the registry lookup after having reported Tampered
verifyOnReplyNoReturn(v, rep, comp) ==
  IF rep.kind = "throw" THEN serverError(v)
  ELSE LET data == parsedData(rep)
           e1 == verifiedByBackend(v, data, comp)
           e2 == decidedByReason(v, data, comp)
           e3 == decidedByStoredHash(v, data, comp)
       IN IF e1.decided THEN e1
          ELSE IF e2.decided /\ e2.result.kind = "Tampered"
            THEN IF e3.decided
                   THEN Effect(TRUE, e3.result, e3.bc, e2.toasts \o e3.toasts,
                               TRUE, e2.requests \o e3.requests)
                   ELSE Effect(FALSE, e2.result, e2.bc, e2.toasts, TRUE,
                               e2.requests)
          ELSE IF e2.decided THEN e2
          ELSE IF e3.decided THEN e3
          ELSE NoEffect

\* the handler from the /verify reply to its return or to the listing request
verifyOnReply(v, rep, comp) ==
  IF rep.kind = "throw" THEN serverError(v)
  ELSE LET data == parsedData(rep)
           e1 == verifiedByBackend(v, data, comp)
           e2 == decidedByReason(v, data, comp)
           e3 == decidedByStoredHash(v, data, comp)
       IN IF e1.decided THEN e1
          ELSE IF e2.decided THEN e2
          ELSE IF e3.decided THEN e3
          ELSE NoEffect

\* the predicate of docs.find: throws on a null element
docMatches(d, comp) ==
  LET fh == Normalize(String(Or(d.fileHash, Str(<<>>))))
  IN fh # <<>> /\ fh = Normalize(comp)

\* docs.find(d => ...): the first matching element, or none, or a TypeError
RECURSIVE docsFind(_, _)
docsFind(docs, comp) ==
  IF docs = <<>> THEN [status |-> "none", doc |-> NullDoc]
  ELSE IF Head(docs).null THEN [status |-> "throw", doc |-> NullDoc]
  ELSE IF docMatches(Head(docs), comp)
    THEN [status |-> "found", doc |-> Head(docs)]
  ELSE docsFind(Tail(docs), comp)

\* the catch block of the fallback lookup
lookupFailed(v, data) ==
  Effect(TRUE,
         Result("ReconciliationFailed", "catch", Undef, Undef, Undef, Undef,
                Shown(data.reason)),
         SetBc(setBcStatus(v, FALSE, Undef)), <<"verificationFailed">>, TRUE,
         HistoryOnly)

\* the "not found in registry" branch of the fallback lookup
notInRegistry(v, comp) ==
  Effect(TRUE,
         Result("NotRegistered", "registry", Str(comp), Undef, Undef, Undef,
                Undef),
         SetBc(setBcStatus(v, FALSE, Undef)), <<"notRegistered">>, TRUE,
         StatsAndHistory)

\* the handler from the /api/documents reply to its return
verifyOnListing(v, data, lst, comp) ==
  IF lst.kind \in {"throw", "unparsable"} THEN lookupFailed(v, data)
  ELSE IF lst.kind # "array" THEN notInRegistry(v, comp)
  ELSE LET m == docsFind(lst.docs, comp)
       IN IF m.status = "throw" THEN lookupFailed(v, data)
          ELSE IF m.status = "found"
            THEN Effect(TRUE,
                        Result("Verified", "registry",
                               Or(m.doc.fileHash, Str(comp)), Undef,
                               m.doc.documentID, Shown(m.doc.blockchainTx),
                               Undef),
                        SetBc(setBcStatus(v, Truthy(m.doc.blockchainTx),
                                          Shown(m.doc.blockchainTx))),
                        <<"verified">>, TRUE, StatsAndHistory)
          ELSE notInRegistry(v, comp)

----------------------------------------------------------------------------
(* Verification of the ethers script *)

\* the catch block
verificationError(v) ==
  Effect(TRUE, Result("ServerError", "catch", Undef, Undef, Undef, Undef, Undef),
         NoBc, <<"verificationFailed">>, TRUE, HistoryOnly)

\* the handler from the /verify reply to its return
verifyOnReplyEthers(v, rep, comp) ==
  IF rep.kind \in {"throw", "unparsable"} \/ rep.data.null
    THEN verificationError(v)
  ELSE LET data == rep.data
           reason == Or(data.reason, Str(S_unknown))
       IN IF Truthy(data.verified)
            THEN Effect(TRUE,
                        Result("Verified", "backend",
                               Or(data.computed_hash, Str(comp)), Undef,
                               Shown(data.documentID),
                               Shown(data.blockchain_tx), Undef),
                        SetBc(setBcStatus(v, Truthy(data.blockchain_tx),
                                          Shown(data.blockchain_tx))),
                        <<"verified">>, TRUE, StatsAndHistory)
          ELSE IF reason.t # "string" THEN verificationError(v)
          ELSE IF includes(reason.s, S_tamper) \/ includes(reason.s, S_mismatch)
            THEN Effect(TRUE,
                        Result("Tampered", "reason", Str(comp),
                               Shown(data.stored_hash), Undef, Undef, Undef),
                        SetBc(setBcStatus(v, FALSE, Undef)), <<"tampered">>,
                        TRUE, StatsAndHistory)
          ELSE Effect(TRUE,
                      Result("NotRegistered", "reason", Str(comp), Undef, Undef,
                             Undef, Undef),
                      SetBc(setBcStatus(v, FALSE, Undef)), <<"notRegistered">>,
                      TRUE, StatsAndHistory)

----------------------------------------------------------------------------
(* Registration: calls, replies and wallet outcomes *)

\* a string literal of the code, kept whole
Text(t) == Str(<<t>>)

\* a call the register handler issues, with the arguments it passes
Call(op, id, name, hash, tx, n) ==
  [op |-> op, id |-> id, name |-> name, hash |-> hash, tx |-> tx, n |-> n]
Req(op) == Call(op, Undef, Undef, Undef, Undef, Undef)

\* the identifiers the backend assigns on upload
StagedIds == {Str(<<"d", "0">>), Str(<<"d", "1">>)}
\* the transaction hashes the wallet yields
TxHashes == {<<"0", "x", "T", "0">>, <<"0", "x", "T", "1">>}
BlockNumbers == {5}
\* the error text a backend reply carries
ErrorVals == {Undef, Str(<<"E">>)}

\* a reply to a fetch: the request threw, or it has a status and a body
HttpReply(kind, ok, data) == [kind |-> kind, ok |-> ok, data |-> data]

\* the body of an /api/upload reply
UploadData(success, id, name, hash, err, tx) ==
  [null |-> FALSE, success |-> success, documentID |-> id, fileName |-> name,
   fileHash |-> hash, error |-> err, blockchain_tx |-> tx]
NullUpload ==
  [null |-> TRUE, success |-> Undef, documentID |-> Undef, fileName |-> Undef,
   fileHash |-> Undef, error |-> Undef, blockchain_tx |-> Undef]
\* the body of `res.json().catch(() => ({}))` when the body does not parse
EmptyUpload == UploadData(Undef, Undef, Undef, Undef, Undef, Undef)
\* a success body carries no error text, a failure body no transaction
UploadBodies(f) ==
  {NullUpload}
  \cup {UploadData(Bool(TRUE), id, Str(<<"f">>), Str(generatedHash(f)), Undef,
                   tx) : id \in StagedIds, tx \in TxVals}
  \cup {UploadData(s, id, Str(<<"f">>), Str(generatedHash(f)), e, Undef) :
          s \in {Undef, Bool(FALSE)}, id \in StagedIds, e \in ErrorVals}
NoHttp == HttpReply("none", FALSE, NullUpload)
UploadReplies(f) ==
  {HttpReply("throw", FALSE, NullUpload)}
  \cup {HttpReply("unparsable", ok, NullUpload) : ok \in BOOLEAN}
  \cup {HttpReply("json", ok, d) : ok \in BOOLEAN, d \in UploadBodies(f)}

\* the body of an /api/contract reply
ContractData(address, abi) ==
  [null |-> FALSE, contract_address |-> address, contract_abi |-> abi]
NullContract == [null |-> TRUE, contract_address |-> Undef, contract_abi |-> Undef]
ContractBodies ==
  {NullContract}
  \cup {ContractData(a, b) : a \in {Undef, Str(<<"0", "x", "C">>)},
                             b \in {Undef, Str(<<"a", "b", "i">>)}}
\* a reply whose status is not OK carries no field, or both
ContractReplies ==
  {HttpReply("throw", FALSE, NullContract),
   HttpReply("unparsable", FALSE, NullContract)}
  \cup {HttpReply("json", TRUE, d) : d \in ContractBodies}
  \cup {HttpReply("json", FALSE, ContractData(Undef, Undef)),
        HttpReply("json", FALSE,
                  ContractData(Str(<<"0", "x", "C">>), Str(<<"a", "b", "i">>)))}

\* the body of an /api/confirm_register reply
ConfirmData(success) == [null |-> FALSE, success |-> success]
NullConfirm == [null |-> TRUE, success |-> Undef]
ConfirmBodies ==
  {NullConfirm} \cup {ConfirmData(s) : s \in {Undef, Bool(TRUE), Bool(FALSE)}}
ConfirmReplies ==
  {HttpReply("throw", FALSE, NullConfirm)}
  \cup {HttpReply("unparsable", ok, NullConfirm) : ok \in BOOLEAN}
  \cup {HttpReply("json", ok, d) : ok \in BOOLEAN, d \in ConfirmBodies}

\* an error of the wallet or of the provider: error.code (0 when it has none)
\* and error.message
WalletError(code, message) == [code |-> code, message |-> message]
NoError == WalletError(0, Undef)
\* error codes and messages of the wallet
M_gas == <<"n", "o", " ", "g", "a", "s">>
M_revert == <<"r", "e", "v", "e", "r", "t">>
M_denied == <<"d", "e", "n", "i", "e", "d">>
S_gas == <<"g", "a", "s">>
UserRejectedCode == 4001
InternalErrorCode == 0 - 32603
RequestPendingCode == 0 - 32002
TxErrors ==
  {WalletError(UserRejectedCode, Str(M_denied)),
   WalletError(InternalErrorCode, Str(M_revert)),
   WalletError(0, Str(M_gas)),
   WalletError(0, Str(M_revert)),
   WalletError(0, Undef)}
ConnectErrors ==
  {WalletError(UserRejectedCode, Str(M_denied)),
   WalletError(RequestPendingCode, Str(M_denied)),
   WalletError(0, Str(M_revert))}

\* what an awaited wallet call yielded: a value (h a transaction hash, n a
\* number) or an error
Outcome(kind, h, n, err) == [kind |-> kind, h |-> h, n |-> n, err |-> err]
NoOutcome == Outcome("none", <<>>, 0, NoError)
Yield(h, n) == Outcome("ok", h, n, NoError)
Fail(err) == Outcome("error", <<>>, 0, err)

\* eth_requestAccounts: the number of accounts, or a rejection
AccountsOutcomes ==
  {Yield(<<>>, n) : n \in {0, 1}} \cup {Fail(e) : e \in ConnectErrors}
\* estimateGas: the gas the provider estimates, or an error
EstimateOutcomes == {Yield(<<>>, 21000), Fail(WalletError(0, Str(M_gas)))}
\* the submission: a pending transaction hash, or an error
SendOutcomes == {Yield(h, 0) : h \in TxHashes} \cup {Fail(e) : e \in TxErrors}
\* the mining wait: a receipt (transactionHash, blockNumber), or an error
MinedOutcomes ==
  {Yield(h, b) : h \in TxHashes, b \in BlockNumbers}
  \cup {Fail(e) : e \in TxErrors}

\* the replies of one register invocation
NoGot ==
  [upload |-> NoHttp,
   contract |-> HttpReply("none", FALSE, NullContract),
   confirm |-> HttpReply("none", FALSE, NullConfirm),
   installed |-> TRUE, accounts |-> NoOutcome, network |-> "none",
   estimate |-> NoOutcome, sent |-> NoOutcome, mined |-> NoOutcome]

\* const { documentID, fileHash, fileName } of the register invocation
Attempt(id, name, hash) == [documentID |-> id, fileName |-> name, fileHash |-> hash]
NoAttempt == Attempt(Undef, Undef, Undef)

\* no register invocation has run and no wallet is connected
RegisterIdle ==
  /\ isWalletConnected = FALSE
  /\ ethersContract = FALSE
  /\ userWalletAddress = 0
  /\ currentNetwork = 0
  /\ rpc = "idle"
  /\ attempt = NoAttempt
  /\ got = NoGot
  /\ calls = <<>>
  /\ rtoasts = <<>>

----------------------------------------------------------------------------
(* Operations *)

Init ==
  /\ variant \in Variants
  /\ uploadedFile = 0
  /\ hashValue = S_NA
  /\ hashing = {}
  /\ verifyBtnDisabled = TRUE
  /\ registerBtnDisabled = TRUE
  /\ loaderHidden = TRUE
  /\ resultDiv = NoResult
  /\ bcStatus = setBcStatus(variant, FALSE, Undef)
  /\ toasts = <<>>
  /\ pc = "idle"
  /\ computedHash = <<>>
  /\ sentFile = 0
  /\ reply = NoReply
  /\ listing = NoListing
  /\ requests = <<>>
  /\ RegisterIdle

\* handleFile(file) up to its first await
SelectFile(f) ==
  /\ uploadedFile' = f
  /\ hashValue' = S_Computing
  /\ verifyBtnDisabled' = TRUE
  /\ registerBtnDisabled' = TRUE
  /\ resultDiv' = NoResult
  /\ bcStatus' = setBcStatus(variant, FALSE, Undef)
  /\ hashing' = hashing \cup {f}
  /\ UNCHANGED <<variant, loaderHidden, toasts, pc, computedHash, sentFile,
                 reply, listing, requests>>
  /\ UNCHANGED regVars

\* handleFile(file) after the digest of file f has been computed
HashDone(f) ==
  /\ f \in hashing
  /\ hashing' = hashing \ {f}
  /\ hashValue' = generatedHash(f)
  /\ verifyBtnDisabled' = FALSE
  /\ registerBtnDisabled' = FALSE
  /\ UNCHANGED <<variant, uploadedFile, loaderHidden, resultDiv, bcStatus,
                 toasts, pc, computedHash, sentFile, reply, listing, requests>>
  /\ UNCHANGED regVars

\* handleFile(file) when reading or hashing file f fails: the ethers script
\* catches the error, the other two scripts leave the rejection unhandled
HashFail(f) ==
  /\ f \in hashing
  /\ hashing' = hashing \ {f}
  /\ hashValue' = IF variant = "ethers" THEN S_Error ELSE hashValue
  /\ UNCHANGED <<variant, uploadedFile, verifyBtnDisabled, registerBtnDisabled,
                 loaderHidden, resultDiv, bcStatus, toasts, pc, computedHash,
                 sentFile, reply, listing, requests>>
  /\ UNCHANGED regVars

\* a check of the hash text that only catches the empty text
hashNotReadyIfEmpty(v, c) == c = <<>>

\* the hash texts for which verifyBtn.onclick returns early
hashNotReady(v, c) ==
  \/ c = <<>>
  \/ c = S_Computing
  \/ v = "ethers" /\ c = S_NA

\* verifyBtn.onclick up to its first await (a disabled button does not click)
VerifyClick ==
  /\ ~verifyBtnDisabled
  /\ pc \in {"idle", "done"}
  /\ reply' = NoReply
  /\ listing' = NoListing
  /\ IF uploadedFile = 0
       THEN /\ toasts' = <<"uploadFirst">>
            /\ pc' = "idle"
            /\ requests' = <<>>
            /\ UNCHANGED <<computedHash, sentFile, loaderHidden,
                           verifyBtnDisabled, registerBtnDisabled, resultDiv>>
     ELSE IF hashNotReady(variant, trim(hashValue))
       THEN /\ toasts' = <<"hashNotReady">>
            /\ pc' = "idle"
            /\ requests' = <<>>
            /\ UNCHANGED <<computedHash, sentFile, loaderHidden,
                           verifyBtnDisabled, registerBtnDisabled, resultDiv>>
     ELSE /\ toasts' = <<>>
          /\ pc' = "awaitVerify"
          /\ computedHash' = trim(hashValue)
          /\ sentFile' = uploadedFile
          /\ requests' = <<"/verify">>
          /\ loaderHidden' = FALSE
          /\ verifyBtnDisabled' = TRUE
          /\ registerBtnDisabled' = TRUE
          /\ resultDiv' = PendingResult
  /\ UNCHANGED <<variant, uploadedFile, hashValue, hashing, bcStatus>>
  /\ UNCHANGED regVars

\* the state change of one continuation of the verify handler
Apply(eff) ==
  /\ resultDiv' = IF eff.result.kind = "None" THEN resultDiv ELSE eff.result
  /\ bcStatus' = IF eff.bc.keep THEN bcStatus
                 ELSE [onChain |-> eff.bc.onChain, tx |-> eff.bc.tx]
  /\ toasts' = toasts \o eff.toasts
  /\ loaderHidden' = IF eff.loadingOff THEN TRUE ELSE loaderHidden
  /\ verifyBtnDisabled' =
       IF eff.loadingOff THEN uploadedFile = 0 ELSE verifyBtnDisabled
  /\ registerBtnDisabled' =
       IF eff.loadingOff THEN uploadedFile = 0 ELSE registerBtnDisabled
  /\ requests' = requests \o eff.requests
                   \o (IF eff.decided THEN <<>> ELSE <<"/api/documents">>)
  /\ pc' = IF eff.decided THEN "done" ELSE "awaitList"

\* verifyBtn.onclick from the /verify reply on
VerifyReply(rep) ==
  /\ pc = "awaitVerify"
  /\ reply' = rep
  /\ Apply(IF variant = "ethers"
             THEN verifyOnReplyEthers(variant, rep, computedHash)
             ELSE verifyOnReply(variant, rep, computedHash))
  /\ UNCHANGED <<variant, uploadedFile, hashValue, hashing, computedHash,
                 sentFile, listing>>
  /\ UNCHANGED regVars

\* verifyBtn.onclick from the /api/documents reply on
ListingReply(lst) ==
  /\ pc = "awaitList"
  /\ listing' = lst
  /\ Apply(verifyOnListing(variant, parsedData(reply), lst, computedHash))
  /\ UNCHANGED <<variant, uploadedFile, hashValue, hashing, computedHash,
                 sentFile, reply>>
  /\ UNCHANGED regVars

\* one reply per path of the handler, for the interleavings with file selection
ReplySample ==
  {r \in Replies :
     /\ r.data.documentID = Undef
     /\ r.data.blockchain_tx = Undef
     /\ r.data.verified # Bool(FALSE)
     /\ r.data.stored_hash \in {Undef, Str(generatedHash(1))}
     /\ r.data.reason \in {Undef, Str(R_hash_mismatch), Str(R_not_found)}}
ListingSample ==
  {l \in Listings :
     /\ Len(l.docs) <= 1
     /\ \A i \in 1..Len(l.docs) : l.docs[i].blockchainTx = Undef}

Next ==
  \/ \E f \in Files : SelectFile(f)
  \/ \E f \in Files : HashDone(f)
  \/ \E f \in Files : HashFail(f)
  \/ VerifyClick
  \/ \E rep \in ReplySample : VerifyReply(rep)
  \/ \E lst \in ListingSample : ListingReply(lst)

Spec == Init /\ [][Next]_vars

\* the reconciler on every reply and listing: a file has been selected and
\* its digest computed, and verifications run one after the other
InitReconcile ==
  /\ variant \in Variants
  /\ uploadedFile \in Files
  /\ hashValue = generatedHash(uploadedFile)
  /\ hashing = {}
  /\ verifyBtnDisabled = FALSE
  /\ registerBtnDisabled = FALSE
  /\ loaderHidden = TRUE
  /\ resultDiv = NoResult
  /\ bcStatus = setBcStatus(variant, FALSE, Undef)
  /\ toasts = <<>>
  /\ pc = "idle"
  /\ computedHash = <<>>
  /\ sentFile = 0
  /\ reply = NoReply
  /\ listing = NoListing
  /\ requests = <<>>
  /\ RegisterIdle

NextReconcile ==
  \/ VerifyClick
  \/ \E rep \in Replies : VerifyReply(rep)
  \/ \E lst \in Listings : ListingReply(lst)

SpecReconcile == InitReconcile /\ [][NextReconcile]_vars

----------------------------------------------------------------------------
(* Registration coordinator *)

\* what the register handler reads when a continuation runs
Ctx ==
  [v |-> variant, file |-> uploadedFile, att |-> attempt, g |-> got,
   connected |-> isWalletConnected, contract |-> ethersContract,
   address |-> userWalletAddress, network |-> currentNetwork]

\* what one continuation of the register handler does: where it stops (next),
\* the result it renders, the status badge, the toasts, setLoading
\* ("on", "off" or "keep"), the calls it issues, and the values it leaves in
\* the attempt's constants and in the wallet state
Step(c, next, result, bc, ts, loading, cs) ==
  [next |-> next, result |-> result, bc |-> bc, toasts |-> ts,
   loading |-> loading, calls |-> cs, att |-> c.att,
   connected |-> c.connected, contract |-> c.contract, address |-> c.address,
   network |-> c.network]

\* the content of resultDiv during and after a registration
RegResult(kind, via, id, hash, tx, reason) ==
  Result(kind, via, hash, Undef, id, tx, reason)
Registering == RegResult("Registering", "", Undef, Undef, Undef, Undef)

\* loadRegistry(), loadStats(), loadHistory()
RefreshAll == <<Req("/api/documents"), Req("/api/stats"), Req("/api/history")>>
RegistryAndHistory == <<Req("/api/documents"), Req("/api/history")>>
HistoryCall == <<Req("/api/history")>>

\* fetch(`/api/upload`) with the form data of the selected file
UploadCall(c) == Call("/api/upload", Undef, Undef, Undef, Undef, Num(c.file))

\* the messages of the errors the platform throws
E_fetch == Text("Failed to fetch")
E_parse == Text("Unexpected token in JSON")
E_type == Text("Cannot read properties of null")

\* the outer catch block of the web3 script
flowError(c, message) ==
  Step(c, "done", RegResult("FlowError", "catch", Undef, Undef, Undef, message),
       SetBc(setBcStatus(c.v, FALSE, Undef)), <<"registrationFailed">>, "off",
       HistoryCall)

\* the catch block of the ethers script
registrationFailed(c, message) ==
  Step(c, "done",
       RegResult("RegistrationFailed", "catch", Undef, Undef, Undef, message),
       NoBc, <<"registrationFailed">>, "off", HistoryCall)

\* the catch block around ensureWeb3() in the web3 script
walletRequired(c, message) ==
  Step(c, "done",
       RegResult("WalletRequired", "catch", Undef, Undef, Undef, message),
       NoBc, <<"walletRequired">>, "off", <<>>)

\* the success branch: the registered document with its transaction
registered(c, id, hash, tx, txShown) ==
  Step(c, "done", RegResult("Registered", "", id, hash, txShown, Undef),
       SetBc(setBcStatus(c.v, TRUE, tx)), <<"registered">>, "off", RefreshAll)

\* registerBtn.onclick of script.js from the /api/upload reply on
uploadScript(c, rep) ==
  IF rep.kind = "throw" \/ (rep.kind = "json" /\ rep.data.null)
    THEN Step(c, "done",
              RegResult("RegisterServerError", "catch", Undef, Undef, Undef,
                        Undef),
              SetBc(setBcStatus(c.v, FALSE, Undef)), <<"serverError">>, "off",
              HistoryCall)
  ELSE LET data == IF rep.kind = "unparsable" THEN EmptyUpload ELSE rep.data
       IN IF rep.ok /\ Truthy(data.success)
            THEN registered(c, data.documentID, data.fileHash,
                            data.blockchain_tx, Shown(data.blockchain_tx))
          ELSE Step(c, "done",
                    RegResult("RegistrationFailed", "reply", Undef, Undef,
                              Undef, Or(data.error, Text("Unknown error"))),
                    SetBc(setBcStatus(c.v, FALSE, Undef)),
                    <<"registrationFailed">>, "off", HistoryCall)

\* registerBtn.onclick of the web3 script from the /api/upload reply on
uploadWeb3(c, rep) ==
  IF rep.kind = "throw" THEN flowError(c, E_fetch)
  ELSE IF \/ ~rep.ok
          \/ rep.kind = "unparsable"
          \/ rep.data.null
          \/ ~Truthy(rep.data.success)
    THEN Step(c, "done",
              RegResult("UploadFailed", "reply", Undef, Undef, Undef,
                        Or(rep.data.error, Text("statusText"))),
              NoBc, <<"uploadFailed">>, "off", HistoryCall)
  ELSE [Step(c, "config",
             RegResult("Prepared", "", rep.data.documentID, Undef, Undef, Undef),
             NoBc, <<>>, "keep", <<Req("/api/contract")>>)
          EXCEPT !.att = Attempt(rep.data.documentID, rep.data.fileName,
                                 rep.data.fileHash)]

\* ethersContract.registerDocument(documentID, fileName, fileHash)
RegisterDocumentCall(att) ==
  Call("send", att.documentID, att.fileName, att.fileHash, Undef, Undef)

\* registerBtn.onclick of the ethers script from the /api/upload reply to the
\* contract call of registerOnBlockchain
uploadEthers(c, rep) ==
  IF rep.kind = "throw" THEN registrationFailed(c, E_fetch)
  ELSE IF rep.kind = "unparsable" THEN registrationFailed(c, E_parse)
  ELSE IF rep.data.null THEN registrationFailed(c, E_type)
  ELSE IF ~rep.ok \/ ~Truthy(rep.data.success)
    THEN registrationFailed(c, Or(rep.data.error, Text("Upload failed")))
  ELSE LET att == Attempt(rep.data.documentID, rep.data.fileName,
                          rep.data.fileHash)
       IN IF ~c.connected \/ ~c.contract
            THEN [registrationFailed(c, Text("Wallet not connected. Please connect MetaMask first."))
                    EXCEPT !.att = att, !.toasts = <<"uploaded">> \o @]
          ELSE [Step(c, "estimate", NoResult, NoBc,
                     <<"uploaded", "preparingTx">>, "on",
                     <<RegisterDocumentCall(att)>>)
                  EXCEPT !.att = att]

\* the /api/contract reply carries both a contract address and an ABI
hasContractMeta(rep) ==
  /\ rep.kind = "json"
  /\ ~rep.data.null
  /\ Truthy(rep.data.contract_abi)
  /\ Truthy(rep.data.contract_address)

\* registerBtn.onclick of the web3 script from the /api/contract reply to the
\* account request of ensureWeb3(); installed is whether window.ethereum exists
contractWeb3(c, rep, installed) ==
  IF rep.kind = "throw" THEN flowError(c, E_fetch)
  ELSE IF ~rep.ok \/ ~hasContractMeta(rep)
    THEN Step(c, "done",
              RegResult("ConfigFailed", "reply", Undef, Undef, Undef, Undef),
              NoBc, <<"configFailed">>, "off", <<>>)
  ELSE IF ~installed
    THEN walletRequired(c, Text("MetaMask (or another wallet) is required. Please install it and try again."))
  ELSE Step(c, "wallet", NoResult, NoBc, <<>>, "keep",
            <<Req("eth_requestAccounts")>>)

\* initializeContract() and the rest of connectWallet() in the ethers script,
\* then registerBtn.onclick up to the upload request
contractEthers(c, rep) ==
  [Step(c, "upload", Registering, NoBc,
        (IF hasContractMeta(rep) THEN <<>> ELSE <<"contractInitFailed">>)
          \o <<"walletConnected", "uploading">>,
        "on", <<UploadCall(c)>>)
     EXCEPT !.connected = TRUE,
            !.contract = hasContractMeta(rep) \/ c.contract]

\* ensureWeb3() from the reply of the wallet on, then the gas estimation call
walletWeb3(c, out) ==
  IF out.kind = "error" THEN walletRequired(c, out.err.message)
  ELSE IF out.n = 0
    THEN walletRequired(c, Text("No accounts found in MetaMask."))
  ELSE Step(c, "estimate", NoResult, NoBc, <<>>, "keep",
            <<Call("estimateGas", c.att.documentID, c.att.fileName,
                   c.att.fileHash, Undef, Undef)>>)

\* a catch block that leaves the loader as it is
connectFailedLoaderKept(c, ts, cs) ==
  Step(c, "done", NoResult, NoBc, ts, "keep", cs)

\* the catch block of connectWallet()
connectFailed(c, ts, cs) == Step(c, "done", NoResult, NoBc, ts, "off", cs)

connectErrorToast(err) ==
  IF err.code = UserRejectedCode THEN "connectionRejected"
  ELSE IF err.code = RequestPendingCode THEN "connectionPending"
  ELSE "connectionFailed"

\* connectWallet() from the reply to eth_requestAccounts on
accountsEthers(c, out) ==
  IF out.kind = "error"
    THEN connectFailed(c, <<connectErrorToast(out.err)>>, <<>>)
  ELSE IF out.n = 0 THEN connectFailed(c, <<"connectionFailed">>, <<>>)
  ELSE [Step(c, "network", NoResult, NoBc, <<>>, "keep", <<Req("getNetwork")>>)
          EXCEPT !.address = 1]

\* getNetwork() and switchToSepolia(): the wallet is on Sepolia, switches to
\* it, has it added, or one of these requests fails
NetworkOutcomes ==
  {"sepolia", "switched", "added", "addFailed", "switchFailed",
   "switchRejected", "networkError"}

SwitchCall == Req("wallet_switchEthereumChain")
AddCall == Req("wallet_addEthereumChain")

\* the chain id of the Sepolia testnet, and that of another network
SEPOLIA_CHAIN_ID_DECIMAL == 11155111
OtherChainId == SEPOLIA_CHAIN_ID_DECIMAL + 1

\* currentNetwork after getNetwork() and switchToSepolia(): the chain id
\* getNetwork() returned, replaced by that of Sepolia when the switch succeeds
networkRecorded(c, out) ==
  CASE out = "networkError" -> c.network
    [] out \in {"sepolia", "switched"} -> SEPOLIA_CHAIN_ID_DECIMAL
    [] OTHER -> OtherChainId

\* connectWallet() from the reply of getNetwork() to the /api/contract request
networkEthers(c, out) ==
  [CASE out = "sepolia" ->
          Step(c, "config", NoResult, NoBc, <<>>, "keep", <<Req("/api/contract")>>)
     [] out = "switched" ->
          Step(c, "config", NoResult, NoBc, <<"wrongNetwork", "switched">>,
               "keep", <<SwitchCall, Req("/api/contract")>>)
     [] out = "added" ->
          Step(c, "config", NoResult, NoBc, <<"wrongNetwork", "sepoliaAdded">>,
               "keep", <<SwitchCall, AddCall, Req("/api/contract")>>)
     [] out = "addFailed" ->
          connectFailed(c, <<"wrongNetwork", "addFailed", "connectionFailed">>,
                        <<SwitchCall, AddCall>>)
     [] out = "switchFailed" ->
          connectFailed(c, <<"wrongNetwork", "connectionFailed">>, <<SwitchCall>>)
     [] out = "switchRejected" ->
          connectFailed(c, <<"wrongNetwork", "connectionRejected">>,
                        <<SwitchCall>>)
     [] OTHER -> connectFailed(c, <<"connectionFailed">>, <<>>)
   EXCEPT !.network = networkRecorded(c, out)]

\* the gas used when estimation fails
fallbackGas == 300000

\* a send call whose transaction carries the hash in place of the file name
SendCallHashAsName(att, gas) ==
  Call("send", att.documentID, att.fileHash, att.fileHash, Undef, Num(gas))

\* txMethod.send({ from: user, gas: gasEstimate })
SendCall(att, gas) ==
  Call("send", att.documentID, att.fileName, att.fileHash, Undef, Num(gas))

\* the web3 script from the reply of estimateGas to the send call
estimateWeb3(c, out) ==
  Step(c, "prompt", NoResult, NoBc, <<>>, "keep",
       <<SendCall(c.att, IF out.kind = "ok" THEN out.n ELSE fallbackGas)>>)

\* an "error" handler that submits the transaction once more
txErrorWeb3Resend(c, err) ==
  IF Cardinality({i \in 1..Len(calls) : calls[i].op = "send"}) < 2
    THEN Step(c, "prompt", NoResult, NoBc, <<>>, "keep",
              <<SendCall(c.att, fallbackGas)>>)
  ELSE Step(c, "done",
            RegResult("TxFailedOrRejected", "error", Undef, Undef, Undef, Undef),
            SetBc(setBcStatus(c.v, FALSE, Undef)), <<"txFailedOrRejected">>,
            "off", <<>>)

\* the "error" handler of the send call in the web3 script
txErrorWeb3(c, err) ==
  Step(c, "done",
       RegResult("TxFailedOrRejected", "error", Undef, Undef, Undef, Undef),
       SetBc(setBcStatus(c.v, FALSE, Undef)), <<"txFailedOrRejected">>, "off",
       <<>>)

\* a classification that looks at the message only
classifyTxErrorByMessage(err) ==
  IF Truthy(err.message) /\ includes(err.message.s, S_gas)
    THEN Text("Gas estimation failed. Check wallet balance.")
  ELSE Or(err.message, Text("Blockchain transaction failed"))

\* the message registerOnBlockchain gives the error it rethrows
classifyTxError(err) ==
  IF err.code = UserRejectedCode THEN Text("Transaction rejected by user")
  ELSE IF err.code = InternalErrorCode THEN Text("Insufficient funds for gas")
  ELSE IF Truthy(err.message) /\ includes(err.message.s, S_gas)
    THEN Text("Gas estimation failed. Check wallet balance.")
  ELSE Or(err.message, Text("Blockchain transaction failed"))

\* the catch block of registerOnBlockchain, then that of the handler
txErrorEthers(c, err) == registrationFailed(c, classifyTxError(err))

\* the ethers script when the contract call has estimated the gas
estimateEthers(c, out) ==
  IF out.kind = "ok" THEN Step(c, "prompt", NoResult, NoBc, <<>>, "keep", <<>>)
  ELSE txErrorEthers(c, out.err)

\* the "transactionHash" handler of the send call in the web3 script
sentWeb3(c, out) ==
  IF out.kind = "ok"
    THEN Step(c, "mining",
              RegResult("TxSent", "", Undef, Undef, Str(out.h), Undef),
              NoBc, <<>>, "on", <<>>)
  ELSE txErrorWeb3(c, out.err)

\* registerOnBlockchain once the contract call has returned the transaction
sentEthers(c, out) ==
  IF out.kind = "ok"
    THEN Step(c, "mining", NoResult, NoBc, <<"txSubmitted">>, "on", <<>>)
  ELSE txErrorEthers(c, out.err)

\* the /api/confirm_register request issued before the receipt has been
\* read: it carries the hash of the pending transaction
confirmCallOfPendingHash(c, out) ==
  Call("/api/confirm_register", c.att.documentID, Undef, Undef,
       Str(c.g.sent.h), IF c.v = "ethers" THEN Num(out.n) ELSE Undef)

\* the body of the /api/confirm_register request: documentID, the
\* transactionHash of the receipt, and its blockNumber in the ethers script
confirmCall(c, out) ==
  Call("/api/confirm_register", c.att.documentID, Undef, Undef, Str(out.h),
       IF c.v = "ethers" THEN Num(out.n) ELSE Undef)

\* a "receipt" handler that confirms the pending hash and then the hash of
\* the receipt
minedWeb3ConfirmsTwice(c, out) ==
  IF out.kind = "ok"
    THEN Step(c, "confirm", NoResult, NoBc, <<>>, "keep",
              <<confirmCallOfPendingHash(c, out), confirmCall(c, out)>>)
  ELSE txErrorWeb3(c, out.err)

\* the "receipt" handler of the web3 script up to the confirm request
minedWeb3(c, out) ==
  IF out.kind = "ok"
    THEN Step(c, "confirm", NoResult, NoBc, <<>>, "keep", <<confirmCall(c, out)>>)
  ELSE txErrorWeb3(c, out.err)

\* registerOnBlockchain from tx.wait() on, then the confirm request
minedEthers(c, out) ==
  IF out.kind = "ok"
    THEN Step(c, "confirm", NoResult, NoBc, <<"savingTx">>, "on",
              <<confirmCall(c, out)>>)
  ELSE txErrorEthers(c, out.err)

\* the "receipt" handler of the web3 script from the confirm reply on
confirmWeb3(c, rep) ==
  LET txHash == Str(c.g.mined.h)
  IN IF rep.kind = "throw"
       THEN Step(c, "done",
                 RegResult("MinedUnconfirmed", "catch", Undef, Undef, txHash,
                           Undef),
                 SetBc(setBcStatus(c.v, TRUE, txHash)), <<"confirmError">>,
                 "off", RegistryAndHistory)
     ELSE IF /\ rep.ok
             /\ rep.kind = "json"
             /\ ~rep.data.null
             /\ Truthy(rep.data.success)
       THEN registered(c, c.att.documentID, c.att.fileHash, txHash, txHash)
     ELSE Step(c, "done",
               RegResult("MinedUnconfirmed", "reply", Undef, Undef, txHash,
                         Undef),
               SetBc(setBcStatus(c.v, TRUE, txHash)), <<"confirmFailed">>,
               "off", RegistryAndHistory)

\* registerBtn.onclick of the ethers script from the confirm reply on
confirmEthers(c, rep) ==
  IF rep.kind = "throw" THEN registrationFailed(c, E_fetch)
  ELSE IF ~rep.ok
    THEN registrationFailed(c, Text("Failed to confirm registration with backend"))
  ELSE registered(c, c.att.documentID, c.att.fileHash, Str(c.g.mined.h),
                  Str(c.g.mined.h))

----------------------------------------------------------------------------
(* Registration: operations *)

\* setLoading(isLoading)
SetLoading(isLoading) ==
  /\ loaderHidden' = ~isLoading
  /\ registerBtnDisabled' = (isLoading \/ uploadedFile = 0)
  /\ verifyBtnDisabled' = (isLoading \/ uploadedFile = 0)

\* the variables no step of the register handler writes
verifyVars ==
  <<variant, uploadedFile, hashValue, hashing, toasts, pc, computedHash,
    sentFile, reply, listing, requests>>

\* the state change of one continuation of the register handler, its toasts
\* and calls added to those shown and issued so far
ProceedFrom(shown, issued, st) ==
  /\ rpc' = st.next
  /\ resultDiv' = IF st.result.kind = "None" THEN resultDiv ELSE st.result
  /\ bcStatus' = IF st.bc.keep THEN bcStatus
                 ELSE [onChain |-> st.bc.onChain, tx |-> st.bc.tx]
  /\ rtoasts' = shown \o st.toasts
  /\ IF st.loading = "keep"
       THEN UNCHANGED <<loaderHidden, registerBtnDisabled, verifyBtnDisabled>>
     ELSE SetLoading(st.loading = "on")
  /\ calls' = issued \o st.calls
  /\ attempt' = st.att
  /\ isWalletConnected' = st.connected
  /\ ethersContract' = st.contract
  /\ userWalletAddress' = st.address
  /\ currentNetwork' = st.network
  /\ UNCHANGED verifyVars

Proceed(st) == ProceedFrom(rtoasts, calls, st)

\* registerBtn.onclick up to its first await (a disabled button does not
\* click); in the ethers script connectWallet() runs first when no wallet is
\* connected, and returns at once when window.ethereum is missing
RegisterClick ==
  /\ ~registerBtnDisabled
  /\ rpc \in {"idle", "done"}
  /\ \E installed \in
          IF uploadedFile # 0 /\ variant = "ethers" /\ ~isWalletConnected
            THEN BOOLEAN ELSE {TRUE} :
       LET c == [Ctx EXCEPT !.att = NoAttempt, !.g = NoGot]
       IN /\ got' = [NoGot EXCEPT !.installed = installed]
          /\ ProceedFrom(<<>>, <<>>,
               IF uploadedFile = 0
                 THEN Step(c, "idle", NoResult, NoBc, <<"uploadFirst">>, "keep",
                           <<>>)
               ELSE IF variant = "ethers" /\ ~isWalletConnected
                 THEN IF installed
                        THEN Step(c, "connect", NoResult, NoBc,
                                  <<"connectFirst">>, "on",
                                  <<Req("eth_requestAccounts")>>)
                      ELSE Step(c, "done", NoResult, NoBc,
                                <<"connectFirst", "noMetaMask">>, "keep", <<>>)
               ELSE Step(c, "upload",
                         IF variant = "web3" THEN NoResult ELSE Registering,
                         NoBc,
                         IF variant = "ethers" THEN <<"uploading">> ELSE <<>>,
                         "on", <<UploadCall(c)>>))

\* the reply to eth_requestAccounts: connectWallet() in the ethers script,
\* ensureWeb3() in the web3 script
AccountsReply(out) ==
  /\ \/ variant = "ethers" /\ rpc = "connect"
     \/ variant = "web3" /\ rpc = "wallet"
  /\ got' = [got EXCEPT !.accounts = out]
  /\ Proceed(IF variant = "ethers" THEN accountsEthers(Ctx, out)
             ELSE walletWeb3(Ctx, out))

\* the replies to getNetwork() and to the requests of switchToSepolia()
NetworkReply(out) ==
  /\ rpc = "network"
  /\ got' = [got EXCEPT !.network = out]
  /\ Proceed(networkEthers(Ctx, out))

\* the reply to the /api/contract request
ContractReply(rep) ==
  /\ rpc = "config"
  /\ \E installed \in
          IF variant = "web3" /\ rep.ok /\ hasContractMeta(rep)
            THEN BOOLEAN ELSE {TRUE} :
       /\ got' = [got EXCEPT !.contract = rep, !.installed = installed]
       /\ Proceed(IF variant = "ethers" THEN contractEthers(Ctx, rep)
                  ELSE contractWeb3(Ctx, rep, installed))

\* the reply to the /api/upload request
UploadReply(rep) ==
  /\ rpc = "upload"
  /\ got' = [got EXCEPT !.upload = rep]
  /\ Proceed(CASE variant = "script" -> uploadScript(Ctx, rep)
               [] variant = "web3" -> uploadWeb3(Ctx, rep)
               [] OTHER -> uploadEthers(Ctx, rep))

\* the outcome of the gas estimation
EstimateReply(out) ==
  /\ rpc = "estimate"
  /\ got' = [got EXCEPT !.estimate = out]
  /\ Proceed(IF variant = "ethers" THEN estimateEthers(Ctx, out)
             ELSE estimateWeb3(Ctx, out))

\* the wallet prompt is answered: the pending transaction hash, or an error
SendReply(out) ==
  /\ rpc = "prompt"
  /\ got' = [got EXCEPT !.sent = out]
  /\ Proceed(IF variant = "ethers" THEN sentEthers(Ctx, out)
             ELSE sentWeb3(Ctx, out))

\* the mining wait ends: the receipt, or an error
MinedReply(out) ==
  /\ rpc = "mining"
  /\ got' = [got EXCEPT !.mined = out]
  /\ Proceed(IF variant = "ethers" THEN minedEthers(Ctx, out)
             ELSE minedWeb3(Ctx, out))

\* the reply to the /api/confirm_register request
ConfirmReply(rep) ==
  /\ rpc = "confirm"
  /\ got' = [got EXCEPT !.confirm = rep]
  /\ Proceed(IF variant = "ethers" THEN confirmEthers(Ctx, rep)
             ELSE confirmWeb3(Ctx, rep))

\* the "accountsChanged" listener of the ethers script when the user
\* disconnects the wallet
WalletDisconnected ==
  /\ variant = "ethers"
  /\ isWalletConnected
  /\ isWalletConnected' = FALSE
  /\ userWalletAddress' = 0
  /\ rtoasts' = rtoasts \o <<"walletDisconnected">>
  /\ UNCHANGED <<ethersContract, currentNetwork, rpc, attempt, got, calls, loaderHidden,
                 registerBtnDisabled, verifyBtnDisabled, resultDiv, bcStatus>>
  /\ UNCHANGED verifyVars

\* registrations run one after the other on a file that has been selected and
\* hashed
InitRegister == InitReconcile

NextRegister ==
  \/ RegisterClick
  \/ \E out \in AccountsOutcomes : AccountsReply(out)
  \/ \E out \in NetworkOutcomes : NetworkReply(out)
  \/ \E rep \in ContractReplies : ContractReply(rep)
  \/ \E rep \in UploadReplies(uploadedFile) : UploadReply(rep)
  \/ \E out \in EstimateOutcomes : EstimateReply(out)
  \/ \E out \in SendOutcomes : SendReply(out)
  \/ \E out \in MinedOutcomes : MinedReply(out)
  \/ \E rep \in ConfirmReplies : ConfirmReply(rep)
  \/ WalletDisconnected

SpecRegister == InitRegister /\ [][NextRegister]_vars

----------------------------------------------------------------------------
(* Vocabulary of the properties *)

Range(q) == {q[i] : i \in 1..Len(q)}

\* a verify invocation has completed on a /verify reply whose body is an object
DoneOnJson == pc = "done" /\ reply.kind = "json" /\ ~reply.data.null

\* the reason text, in any letter case, names tampering or a hash mismatch
ReasonIndicatesTampering(d) ==
  d.reason.t = "string" /\ isTamperedReason(toLowerCase(d.reason.s))

\* the reason text, in any letter case, names absence from the registry
ReasonIndicatesAbsence(d) ==
  d.reason.t = "string" /\ isNotRegisteredReason(toLowerCase(d.reason.s))

ReasonClassifiable(d) == ReasonIndicatesTampering(d) \/ ReasonIndicatesAbsence(d)

\* the reply carries a stored hash that is not empty once its prefix is stripped
StoredHashUsable(d) ==
  d.stored_hash.t = "string" /\ Normalize(d.stored_hash.s) # <<>>

\* steps 1-4 of the decision precedence yield an outcome on this body
Decisive(d) ==
  ~d.null /\ (d.verified = Bool(TRUE) \/ ReasonClassifiable(d) \/ StoredHashUsable(d))

\* the digest a hash string denotes, whatever its letter case and prefix
Canon(h) == replace0x(toLowerCase(h))

\* the listing is an array of records
IsRecordList(l) ==
  l.kind = "array" /\ \A i \in 1..Len(l.docs) : ~l.docs[i].null

\* the records of the listing whose normalised fileHash is the fingerprint
MatchingDocs(l, comp) ==
  {i \in 1..Len(l.docs) :
     /\ ~l.docs[i].null
     /\ l.docs[i].fileHash.t = "string"
     /\ Normalize(l.docs[i].fileHash.s) # <<>>
     /\ Normalize(l.docs[i].fileHash.s) = Normalize(comp)}

\* the toast that goes with each outcome
ToastOf(kind) ==
  CASE kind = "Verified" -> {"verified"}
    [] kind = "Tampered" -> {"tampered"}
    [] kind = "NotRegistered" -> {"notRegistered"}
    [] kind = "ReconciliationFailed" -> {"verificationFailed"}
    [] kind = "ServerError" -> {"serverError", "verificationFailed"}
    [] OTHER -> {}

----------------------------------------------------------------------------
(* Properties of the verification reconciler *)

\* C1: a reply whose verified is not true and whose reason indicates tampering
\* or a hash mismatch (and not absence) yields Tampered carrying the reply's
\* stored_hash, never NotRegistered or Verified.
C1_TamperReasonYieldsTampered ==
  (/\ DoneOnJson
   /\ reply.data.verified # Bool(TRUE)
   /\ ReasonIndicatesTampering(reply.data)
   /\ ~ReasonIndicatesAbsence(reply.data))
  => /\ resultDiv.kind = "Tampered"
     /\ resultDiv.storedHash = Shown(reply.data.stored_hash)

\* C2: a reply with verified = true yields Verified carrying the reply's
\* documentID and blockchain_tx when present, whatever its reason and
\* stored_hash, and the document listing is not requested.
C2_VerifiedTrueYieldsVerified ==
  (reply.kind = "json" /\ ~reply.data.null /\ reply.data.verified = Bool(TRUE))
  => /\ pc = "done"
     /\ resultDiv.kind = "Verified"
     /\ resultDiv.documentID = Shown(reply.data.documentID)
     /\ resultDiv.tx = Shown(reply.data.blockchain_tx)
     /\ toasts = <<"verified">>
     /\ "/api/documents" \notin Range(requests)
     /\ listing = NoListing

\* C2 witness: Verified was reported on verified = true although the reply also
\* carried a reason, a stored hash of another digest, an id and a transaction.
C2_Witness ==
  /\ DoneOnJson
  /\ reply.data.verified = Bool(TRUE)
  /\ ReasonClassifiable(reply.data)
  /\ StoredHashUsable(reply.data)
  /\ Normalize(reply.data.stored_hash.s) # Normalize(computedHash)
  /\ Truthy(reply.data.documentID)
  /\ Truthy(reply.data.blockchain_tx)
  /\ resultDiv.kind = "Verified"
  /\ resultDiv.tx = reply.data.blockchain_tx

\* C3: a reply whose verified is not true and whose reason indicates absence
\* from the registry yields NotRegistered, also when the reason indicates
\* tampering as well and whatever stored_hash is.
C3_AbsenceReasonYieldsNotRegistered ==
  (/\ DoneOnJson
   /\ reply.data.verified # Bool(TRUE)
   /\ ReasonIndicatesAbsence(reply.data))
  => resultDiv.kind = "NotRegistered"

\* C4: a reply with no verified = true, no classifiable reason and a stored_hash
\* yields Verified when the stored hash and the fingerprint are equal after
\* stripping 0x and lower-casing, and Tampered carrying the stored hash
\* otherwise.
C4_StoredHashComparison ==
  (/\ DoneOnJson
   /\ reply.data.verified # Bool(TRUE)
   /\ reply.data.reason.t \in {"undefined", "string"}
   /\ ~ReasonClassifiable(reply.data)
   /\ StoredHashUsable(reply.data))
  => IF Normalize(reply.data.stored_hash.s) = Normalize(computedHash)
       THEN resultDiv.kind = "Verified"
       ELSE /\ resultDiv.kind = "Tampered"
            /\ resultDiv.storedHash = reply.data.stored_hash

\* C5: when steps 1-4 yield no decision the document listing is requested, and
\* on a list of records the outcome is Verified carrying the id and tx of a
\* record whose normalised fileHash is the fingerprint, NotRegistered if there
\* is no such record.
C5_FallbackScan ==
  (/\ pc = "done"
   /\ reply.kind \in {"json", "unparsable"}
   /\ ~Decisive(parsedData(reply))
   /\ parsedData(reply).reason.t \in {"undefined", "string"})
  => /\ "/api/documents" \in Range(requests)
     /\ IsRecordList(listing) =>
          IF MatchingDocs(listing, computedHash) # {}
            THEN /\ resultDiv.kind = "Verified"
                 /\ \E i \in MatchingDocs(listing, computedHash) :
                      /\ resultDiv.documentID = listing.docs[i].documentID
                      /\ resultDiv.tx = Shown(listing.docs[i].blockchainTx)
            ELSE resultDiv.kind = "NotRegistered"

\* C6: a completed verify invocation has reported exactly one outcome: one
\* toast, and a result of the same kind.
C6_ExactlyOneOutcome ==
  pc = "done"
  => /\ Len(toasts) = 1
     /\ resultDiv.kind \in {"Verified", "Tampered", "NotRegistered",
                            "ReconciliationFailed", "ServerError"}
     /\ toasts[1] \in ToastOf(resultDiv.kind)

\* C6 witness: an invocation that went through the listing completed with one
\* outcome.
C6_Witness ==
  /\ pc = "done"
  /\ listing.kind = "array"
  /\ Len(listing.docs) = MaxDocs
  /\ resultDiv.kind = "Verified"
  /\ toasts = <<"verified">>

\* C7: when the listing request fails, its body cannot be parsed or it is not a
\* list of records (and holds no record of the fingerprint), the outcome is
\* ReconciliationFailed, never NotRegistered.
C7_FailedScanIsReported ==
  (pc = "done" /\ listing.kind # "none" /\ ~IsRecordList(listing)
     /\ MatchingDocs(listing, computedHash) = {})
  => resultDiv.kind = "ReconciliationFailed"

\* C8: when steps 1-4 of the precedence yield an outcome on the reply, the
\* invocation completes without requesting the document listing; in script.js
\* and the web3 script a stored hash equal to the fingerprint, with no verdict
\* and no reason, yields Verified.
C8_NoListingAfterDecision ==
  (reply.kind = "json" /\ Decisive(reply.data))
  => /\ pc = "done"
     /\ "/api/documents" \notin Range(requests)
     /\ listing = NoListing
     /\ (/\ variant # "ethers"
         /\ ~Truthy(reply.data.verified)
         /\ ~Truthy(reply.data.reason)
         /\ Normalize(reply.data.stored_hash.s) = Normalize(computedHash))
        => resultDiv.kind = "Verified"

\* C8 witness: Verified by a matching stored hash alone, no listing requested.
C8_Witness ==
  /\ DoneOnJson
  /\ ~Truthy(reply.data.verified)
  /\ ~Truthy(reply.data.reason)
  /\ StoredHashUsable(reply.data)
  /\ reply.data.stored_hash.s # computedHash
  /\ resultDiv.kind = "Verified"
  /\ resultDiv.via = "storedHash"
  /\ requests = <<"/verify">> \o StatsAndHistory

\* C9: hash strings that denote the same digest and differ only in letter case
\* and in the presence of a 0x prefix are treated as equal, by the stored_hash
\* comparison and by the fallback scan of script.js and the web3 script.
C9_CaseAndPrefixInsensitive ==
  /\ (/\ DoneOnJson
      /\ variant # "ethers"
      /\ ~Truthy(reply.data.verified)
      /\ ~Truthy(reply.data.reason)
      /\ reply.data.stored_hash.t = "string"
      /\ Canon(reply.data.stored_hash.s) = Canon(computedHash))
     => resultDiv.kind = "Verified"
  /\ (/\ pc = "done"
      /\ IsRecordList(listing)
      /\ \E i \in 1..Len(listing.docs) :
           /\ listing.docs[i].fileHash.t = "string"
           /\ Canon(listing.docs[i].fileHash.s) = Canon(computedHash))
     => resultDiv.kind = "Verified"

\* C10: a reply that carries verified = false is never reported as Verified,
\* whatever stored_hash and the document listing contain.
C10_VerdictFalseNeverVerified ==
  (DoneOnJson /\ reply.data.verified = Bool(FALSE))
  => resultDiv.kind # "Verified"

\* the requests that read the registry or record a verification: none of them
\* stages a record, confirms one or submits a transaction
ReadOnlyRequests == {"/verify", "/api/documents", "/api/stats", "/api/history"}

\* C11: on every path of a verify invocation the client requests only /verify,
\* the document listing, the statistics and the history: it issues no upload,
\* no confirm_register call and no ledger transaction.
C11_VerifyIsReadOnly == Range(requests) \subseteq ReadOnlyRequests

\* C11 witness: a verification that went through the fallback scan has
\* completed, having issued the /verify, listing, statistics and history
\* requests.
C11_Witness ==
  /\ pc = "done"
  /\ resultDiv.kind = "Verified"
  /\ resultDiv.via = "registry"
  /\ requests = <<"/verify", "/api/documents">> \o StatsAndHistory

----------------------------------------------------------------------------
(* Properties of the registration coordinator *)

\* the positions of the calls of one kind in the log of the register invocation
CallsOf(op) == {i \in 1..Len(calls) : calls[i].op = op}
ConfirmCalls == CallsOf("/api/confirm_register")
SendCalls == CallsOf("send")

\* a receipt has been observed in this register invocation
ReceiptObserved == got.mined.kind = "ok"

\* C12: a confirm_register call is issued only once a mined receipt has been
\* observed in the same registration attempt, and it carries the documentID of
\* the upload reply and the transaction hash of that receipt; without a
\* receipt no confirm_register call is issued.
C12_ConfirmOnlyAfterReceipt ==
  \A i \in ConfirmCalls :
    /\ ReceiptObserved
    /\ got.upload.kind = "json"
    /\ calls[i].id = got.upload.data.documentID
    /\ calls[i].tx = Str(got.mined.h)

\* C12 witness: a registration through the wallet has completed, its confirm
\* call issued after the receipt.
C12_Witness ==
  /\ rpc = "done"
  /\ variant # "script"
  /\ resultDiv.kind = "Registered"
  /\ ReceiptObserved
  /\ ConfirmCalls # {}

\* the confirm call failed: the request threw, the body did not parse, the
\* status was not OK, or success was not true
ConfirmFailed(rep) ==
  \/ rep.kind \in {"throw", "unparsable"}
  \/ rep.kind = "json" /\ ~rep.data.null
       /\ (~rep.ok \/ rep.data.success # Bool(TRUE))

\* C13: when the transaction has been mined and the confirm call fails, the
\* registration ends in the mined-but-unconfirmed outcome, which shows the
\* transaction hash of the receipt, and not in a plain failure.
C13_MinedButUnconfirmed ==
  (rpc = "done" /\ ReceiptObserved /\ ConfirmFailed(got.confirm))
  => /\ resultDiv.kind = "MinedUnconfirmed"
     /\ resultDiv.tx = Str(got.mined.h)

\* a step that issues a confirm_register call for the documentID and the
\* transaction hash of the finished attempt, and issues nothing else
RedrivesConfirm ==
  \E n \in {Undef} \cup {Num(b) : b \in BlockNumbers} :
    LET again == Call("/api/confirm_register", attempt.documentID, Undef,
                      Undef, resultDiv.tx, n)
    IN calls' \in {calls \o <<again>>, <<again>>}

\* C14: after a mined-but-unconfirmed outcome an operation is available that
\* re-issues confirm_register for the same documentID and transaction hash
\* without a new upload and without a new transaction.
C14_ConfirmCanBeRedriven ==
  (rpc = "done" /\ resultDiv.kind = "MinedUnconfirmed")
  => ENABLED (NextRegister /\ RedrivesConfirm)

\* the requests that only reload what the page displays
RefreshOps == {"/api/documents", "/api/stats", "/api/history"}

\* every call issued after the last call of the given kind is a reload
OnlyReloadsAfter(op) ==
  \A i \in CallsOf(op) : \A j \in (i + 1)..Len(calls) : calls[j].op \in RefreshOps

\* the stage step failed: the body did not parse, the status was not OK, or
\* success was not true
StageFailed(rep) ==
  \/ rep.kind = "unparsable"
  \/ rep.kind = "json" /\ ~rep.data.null
       /\ (~rep.ok \/ rep.data.success # Bool(TRUE))

\* the outcome shown names the upload as what failed: the upload-failed card
\* of the web3 script, the registration-failed card of script.js (whose
\* registration is the upload), and in the ethers script the failure card
\* with the backend's error text or "Upload failed"
StageFailureReported ==
  CASE variant = "web3" -> resultDiv.kind = "UploadFailed"
    [] variant = "script" ->
         resultDiv.kind = "RegistrationFailed" /\ resultDiv.via = "reply"
    [] OTHER ->
         /\ resultDiv.kind = "RegistrationFailed"
         /\ resultDiv.reason \in {Text("Upload failed")} \cup (ErrorVals \ {Undef})

\* C15: when the stage step fails the registration attempt ends there: the
\* handler is done, nothing but the history reload follows the upload (no
\* contract configuration, no wallet request, no transaction, no confirm), and
\* a stage-failure outcome is shown.
C15_StageFailureIsTerminal ==
  StageFailed(got.upload)
  => /\ rpc = "done"
     /\ OnlyReloadsAfter("/api/upload")
     /\ SendCalls = {} /\ ConfirmCalls = {}
     /\ StageFailureReported

\* the ledger parameters could not be acquired: the status was not OK, the
\* body did not parse, or it lacks contract_address or contract_abi
ConfigUnavailable(rep) ==
  \/ rep.kind = "unparsable"
  \/ rep.kind = "json" /\ (~rep.ok \/ ~hasContractMeta(rep))

\* C16: when the ledger parameters cannot be acquired the registration attempt
\* ends there: the handler is done, no call follows the /api/contract request
\* (no transaction, no confirm), and the outcome shown is the
\* configuration-unavailable one.
C16_ConfigFailureIsTerminal ==
  ConfigUnavailable(got.contract)
  => /\ rpc = "done"
     /\ calls[Len(calls)].op = "/api/contract"
     /\ SendCalls = {} /\ ConfirmCalls = {}
     /\ resultDiv.kind = "ConfigFailed"

\* the user rejected the wallet prompt of the transaction
RejectedAtSubmit ==
  got.sent.kind = "error" /\ got.sent.err.code = UserRejectedCode

\* the outcome shown names the rejection
RejectionShown ==
  \/ variant = "web3" /\ resultDiv.kind = "TxFailedOrRejected"
  \/ /\ variant = "ethers"
     /\ resultDiv.kind = "RegistrationFailed"
     /\ resultDiv.reason = Text("Transaction rejected by user")

\* C17: when the user rejects the wallet prompt at the submit step the attempt
\* is over: the loader is hidden and the buttons are enabled again, a
\* rejection outcome is shown, no confirm_register call is issued, and
\* nothing but reloads follows the submission (no call rolls the staged
\* record back).
C17_RejectionIsCleanFailure ==
  RejectedAtSubmit
  => /\ rpc = "done"
     /\ loaderHidden /\ ~registerBtnDisabled /\ ~verifyBtnDisabled
     /\ RejectionShown
     /\ ConfirmCalls = {}
     /\ OnlyReloadsAfter("send")

\* C17 witness: the upload staged a record, the transaction was prompted and
\* the user rejected it.
C17_Witness ==
  /\ RejectedAtSubmit
  /\ rpc = "done"
  /\ got.upload.data.success = Bool(TRUE)
  /\ Cardinality(SendCalls) = 1

\* the transaction was rejected or failed, at the prompt or while mining
TxFailed == got.sent.kind = "error" \/ got.mined.kind = "error"

\* C18: a register invocation submits at most one transaction, and once the
\* transaction is rejected or fails the invocation is done and has submitted
\* nothing after it.
C18_AtMostOneSubmission ==
  /\ Cardinality(SendCalls) <= 1
  /\ TxFailed => (rpc = "done" /\ OnlyReloadsAfter("send"))

\* C18 witness: a transaction failed while mining, after exactly one
\* submission.
C18_Witness ==
  /\ rpc = "done"
  /\ got.sent.kind = "ok"
  /\ got.mined.kind = "error"
  /\ Cardinality(SendCalls) = 1

\* C19: while the transaction is pending (its hash yielded, its receipt not
\* yet arrived) the page shows the pending transaction hash.
C19_PendingHashShown ==
  rpc = "mining"
  => /\ resultDiv.kind = "TxSent"
     /\ resultDiv.tx = Str(got.sent.h)

\* C20: when gas estimation fails the transaction is submitted with the
\* hardcoded fallback gas, and the attempt does not end on the estimation
\* error.
C20_GasFallback ==
  got.estimate.kind = "error"
  => /\ \E i \in SendCalls : calls[i].n = Num(fallbackGas)
     /\ ~(rpc = "done" /\ got.sent.kind = "none")

\* the kind of failure an error of the wallet denotes at the submit step
SubmitErrorKind(err) ==
  CASE err.code = UserRejectedCode -> "UserRejected"
    [] err.code = InternalErrorCode -> "InsufficientFunds"
    [] OTHER -> "TransactionFailed"

\* the submit step failed, at the wallet prompt
SubmitFailed == rpc = "done" /\ got.sent.kind = "error"

\* the kinds of submit failure the message shown stands for
SubmitKindsShown ==
  CASE resultDiv.kind = "TxFailedOrRejected" ->
         {"UserRejected", "InsufficientFunds", "TransactionFailed"}
    [] resultDiv.kind = "RegistrationFailed"
         /\ resultDiv.reason = Text("Transaction rejected by user") ->
         {"UserRejected"}
    [] resultDiv.kind = "RegistrationFailed"
         /\ resultDiv.reason = Text("Insufficient funds for gas") ->
         {"InsufficientFunds"}
    [] resultDiv.kind = "RegistrationFailed" -> {"TransactionFailed"}
    [] OTHER -> {}

\* the message shown says that no wallet is connected or installed
WalletMessageShown ==
  \/ resultDiv.kind = "WalletRequired"
  \/ /\ resultDiv.kind = "RegistrationFailed"
     /\ resultDiv.reason =
          Text("Wallet not connected. Please connect MetaMask first.")
  \/ "noMetaMask" \in Range(rtoasts)

\* C21: a failure of the submit step is shown with the message of its own
\* kind (user rejection, insufficient funds, generic transaction failure) and
\* of no other kind; a stage failure, an unavailable ledger configuration and
\* a missing wallet each end in their own message, none of them in the
\* message of another.
C21_FailuresShownDistinctly ==
  /\ SubmitFailed => SubmitKindsShown = {SubmitErrorKind(got.sent.err)}
  /\ (rpc = "done" /\ StageFailed(got.upload))
       => (resultDiv.kind \in {"UploadFailed", "RegistrationFailed"}
           /\ ~WalletMessageShown)
  /\ (rpc = "done" /\ ConfigUnavailable(got.contract))
       => ((resultDiv.kind = "ConfigFailed" \/ "contractInitFailed" \in Range(rtoasts))
           /\ ~WalletMessageShown)
  /\ (rpc = "done" /\ ~got.installed)
       => (WalletMessageShown
           /\ resultDiv.kind \notin {"UploadFailed", "ConfigFailed"})

\* the stage reply of this attempt is a success that carries a documentID
StagedOk ==
  /\ got.upload.kind = "json"
  /\ got.upload.ok
  /\ ~got.upload.data.null
  /\ Truthy(got.upload.data.success)

\* C23: every transaction submitted in a registration attempt is submitted
\* after the successful stage reply of that attempt has been received, and
\* its arguments are exactly the documentID, fileName and fileHash of that
\* reply.
C23_TxCarriesStagedTriple ==
  \A i \in SendCalls :
    /\ StagedOk
    /\ \E j \in CallsOf("/api/upload") : j < i
    /\ calls[i].id = got.upload.data.documentID
    /\ calls[i].name = got.upload.data.fileName
    /\ calls[i].hash = got.upload.data.fileHash

\* C23 witness: a transaction has been submitted for a staged record and is
\* being mined.
C23_Witness ==
  /\ rpc = "mining"
  /\ StagedOk
  /\ Cardinality(SendCalls) = 1
  /\ got.upload.data.documentID \in StagedIds

\* C30: a registration attempt issues at most one confirm_register call, and
\* that call belongs to the one upload of the attempt, so that the documentID
\* the upload was assigned is confirmed with one transaction hash only.
C30_AtMostOneConfirm ==
  /\ Cardinality(ConfirmCalls) <= 1
  /\ ConfirmCalls # {} => Cardinality(CallsOf("/api/upload")) = 1
  /\ \A i, j \in ConfirmCalls :
       calls[i].id = calls[j].id => calls[i].tx = calls[j].tx

\* C30 witness: an attempt has ended mined but unconfirmed, after its single
\* confirm_register call.
C30_Witness ==
  /\ rpc = "done"
  /\ resultDiv.kind = "MinedUnconfirmed"
  /\ Cardinality(ConfirmCalls) = 1
  /\ ConfirmFailed(got.confirm)

----------------------------------------------------------------------------
(* Properties of the hasher and of the input checks *)

\* the lowercase hexadecimal digits, in the order of their values
HexDigits ==
  <<"0", "1", "2", "3", "4", "5", "6", "7", "8", "9", "a", "b", "c", "d", "e",
    "f">>
IsHexDigit(ch) == \E k \in 1..16 : HexDigits[k] = ch
HexValue(ch) == (CHOOSE k \in 1..16 : HexDigits[k] = ch) - 1

\* the text h renders the bytes byte by byte: two lowercase hexadecimal
\* digits for each byte, the high digit first, and nothing else
RendersBytes(h, bytes) ==
  /\ Len(h) = 2 * Len(bytes)
  /\ \A i \in 1..Len(bytes) :
       /\ IsHexDigit(h[2 * i - 1])
       /\ IsHexDigit(h[2 * i])
       /\ 16 * HexValue(h[2 * i - 1]) + HexValue(h[2 * i]) = bytes[i]

InputErrorClick ==
  \/ (VerifyClick \/ RegisterClick) /\ uploadedFile = 0
  \/ VerifyClick /\ uploadedFile # 0 /\ hashValue = S_Computing

\* C25: a click that meets an input error (no file selected; for verify, the
\* fingerprint not yet computed) only shows a message: no request is issued to
\* the backend or the wallet, no invocation is left in flight, and the loader,
\* the buttons, the result, the status badge, the file and the hash field are
\* as before.
C25_InputErrorsHaveNoEffect ==
  [][InputErrorClick
       => /\ requests' = <<>> /\ calls' = <<>>
          /\ pc' = "idle" /\ rpc' = "idle"
          /\ toasts' \o rtoasts' \in {<<"uploadFirst">>, <<"hashNotReady">>}
          /\ UNCHANGED <<loaderHidden, verifyBtnDisabled, registerBtnDisabled,
                         resultDiv, bcStatus, uploadedFile, hashValue, hashing,
                         isWalletConnected, ethersContract>>]_vars

\* C25 witness: the verify button was clicked while the digest of a newly
\* selected file was still being computed, and only the message appeared.
C25_Witness ==
  /\ toasts = <<"hashNotReady">>
  /\ hashValue = S_Computing
  /\ uploadedFile # 0
  /\ pc = "idle"
  /\ requests = <<>>
  /\ loaderHidden

----------------------------------------------------------------------------
(* Properties of the busy flag and of the fingerprint in use *)

\* a verify or a register invocation has started and has not yet reached its
\* outcome
VerifyInFlight == pc \in {"awaitVerify", "awaitList"}
RegisterInFlight == rpc \notin {"idle", "done"}

\* C22: while a register or a verify invocation is in flight the register and
\* the verify button are disabled, whatever else happens on the page, so that
\* no second invocation can be started.
C22_ButtonsDisabledInFlight ==
  (VerifyInFlight \/ RegisterInFlight)
  => (verifyBtnDisabled /\ registerBtnDisabled)

\* C27: the fingerprint a verify invocation works with is the digest of the
\* very file it sends, and not the digest of another file or a placeholder
\* text.
C27_FingerprintOfSentFile ==
  VerifyInFlight => computedHash = generatedHash(sentFile)

----------------------------------------------------------------------------
(* Properties of the wallet connection *)

\* the wallet was on another network and neither the switch to Sepolia nor
\* the request to add it succeeded
SwitchDidNotSucceed ==
  got.network \in {"addFailed", "switchFailed", "switchRejected"}

\* C26: the wallet is marked connected only while the recorded current
\* network is the Sepolia testnet, and a connection on another network whose
\* switch does not succeed leaves the wallet not connected.
C26_ConnectedOnlyOnSepolia ==
  /\ isWalletConnected => currentNetwork = SEPOLIA_CHAIN_ID_DECIMAL
  /\ SwitchDidNotSucceed => ~isWalletConnected

\* the attempt staged a record and then failed for lack of a wallet or of a
\* contract handle
FailedForLackOfContract ==
  /\ rpc = "done"
  /\ StagedOk
  /\ resultDiv.kind = "RegistrationFailed"
  /\ resultDiv.reason =
       Text("Wallet not connected. Please connect MetaMask first.")

\* C29: in the ethers script a connected wallet has its contract handle
\* initialised and its address set, and no attempt that passed the
\* wallet-connected check fails for lack of a contract once it has staged a
\* record.
C29_ConnectedImpliesContract ==
  variant = "ethers"
  => /\ isWalletConnected => (ethersContract /\ userWalletAddress # 0)
     /\ ~FailedForLackOfContract

----------------------------------------------------------------------------
(* Termination: verify and register invocations whose requests all resolve *)

\* one reply or outcome per way in which a request can resolve
VerifyResolutions ==
  {r \in ReplySample : r.data.stored_hash = Undef /\ r.data.reason = Undef}
ListingResolutions == {l \in ListingSample : l.docs = <<>>}
AccountsResolutions ==
  {o \in AccountsOutcomes : o.kind = "error" => o.err.code = UserRejectedCode}
ContractResolutions ==
  {rep \in ContractReplies :
     \/ rep.kind = "throw"
     \/ rep.ok /\ (rep.data.null \/ hasContractMeta(rep))}
UploadResolutions(f) ==
  {rep \in UploadReplies(f) :
     \/ rep.kind = "throw"
     \/ /\ rep.kind = "json"
        /\ rep.ok
        /\ ~rep.data.null
        /\ rep.data.documentID = Str(<<"d", "0">>)
        /\ rep.data.error = Undef
        /\ rep.data.success # Undef
        /\ rep.data.blockchain_tx \in {Undef, Str(<<"0", "x", "T", "0">>)}}
TxResolutions(outs) ==
  {o \in outs :
     IF o.kind = "ok" THEN o.h = <<"0", "x", "T", "0">>
     ELSE o.err.code = UserRejectedCode \/ o.err.message = Undef}
ConfirmResolutions ==
  {rep \in ConfirmReplies :
     \/ rep.kind = "throw"
     \/ rep.kind = "json" /\ ~rep.data.null /\ rep.data.success # Undef
          /\ (rep.ok <=> rep.data.success = Bool(TRUE))}

\* the backend or the wallet resolves the request an invocation is awaiting
VerifyResolves == \E rep \in VerifyResolutions : VerifyReply(rep)
ListingResolves == \E lst \in ListingResolutions : ListingReply(lst)
RegisterResolves ==
  \/ \E out \in AccountsResolutions : AccountsReply(out)
  \/ \E out \in NetworkOutcomes : NetworkReply(out)
  \/ \E rep \in ContractResolutions : ContractReply(rep)
  \/ \E rep \in UploadResolutions(uploadedFile) : UploadReply(rep)
  \/ \E out \in EstimateOutcomes : EstimateReply(out)
  \/ \E out \in TxResolutions(SendOutcomes) : SendReply(out)
  \/ \E out \in TxResolutions(MinedOutcomes) : MinedReply(out)
  \/ \E rep \in ConfirmResolutions : ConfirmReply(rep)

NextLive ==
  \/ VerifyClick
  \/ RegisterClick
  \/ VerifyResolves
  \/ ListingResolves
  \/ RegisterResolves
  \/ WalletDisconnected

\* every request eventually resolves; the user is free to click or not
SpecLive ==
  /\ InitReconcile
  /\ [][NextLive]_vars
  /\ WF_vars(VerifyResolves)
  /\ WF_vars(ListingResolves)
  /\ WF_vars(RegisterResolves)

\* no invocation is in flight and the busy flag is cleared
BusyCleared ==
  /\ ~VerifyInFlight
  /\ ~RegisterInFlight
  /\ loaderHidden
  /\ ~registerBtnDisabled
  /\ ~verifyBtnDisabled

\* C28: when every request eventually resolves, every verify and every
\* register invocation in flight eventually reaches its outcome with the
\* loader hidden and the buttons enabled, and never rests on an outcome with
\* the loader shown.
C28_InvocationsTerminate ==
  /\ (VerifyInFlight \/ RegisterInFlight) ~> BusyCleared
  /\ []((~VerifyInFlight /\ ~RegisterInFlight) => BusyCleared)

\* C28 witness: a registration that went through the wallet approval, the
\* mining wait and the confirm call has reached its outcome, the busy flag
\* cleared.
C28_Witness ==
  /\ rpc = "done"
  /\ got.sent.kind = "ok"
  /\ got.mined.kind = "ok"
  /\ got.confirm.kind # "none"
  /\ BusyCleared

----------------------------------------------------------------------------
(* Properties of the wallet-unavailable outcome and of the on-chain status *)

\* no wallet provider is installed, or the request for the accounts of the
\* wallet failed or yielded no account
WalletUnavailable ==
  \/ ~got.installed
  \/ got.accounts.kind = "error"
  \/ got.accounts.kind = "ok" /\ got.accounts.n = 0

\* C31: a register attempt that finds no wallet provider, or whose wallet
\* connection fails, ends with a wallet-unavailable message and has issued no
\* /api/upload request.
C31_NoUploadWithoutWallet ==
  WalletUnavailable
  => /\ rpc = "done"
     /\ CallsOf("/api/upload") = {}
     /\ \/ WalletMessageShown
        \/ Range(rtoasts) \cap {"connectionRejected", "connectionPending",
                                "connectionFailed"} # {}

\* C32: the page shows a document as registered, or its status as stored on
\* the ledger, only together with a transaction identifier; a successful
\* upload reply without one does not produce the on-chain status.
C32_OnChainOnlyWithTx ==
  /\ bcStatus.onChain => Truthy(bcStatus.tx)
  /\ resultDiv.kind = "Registered" => Truthy(resultDiv.tx)

----------------------------------------------------------------------------
(* Properties of the reason classification *)

\* the /verify replies that differ from rep in the letter case of the reason
\* text only
CaseVariants(rep) ==
  IF rep.data.reason.t # "string" THEN {}
  ELSE {[rep EXCEPT !.data.reason = r] :
          r \in {x \in ReasonVals :
                   /\ x.t = "string"
                   /\ toLowerCase(x.s) = toLowerCase(rep.data.reason.s)}}

\* what the verify handler of the running script does on a /verify reply
onVerifyReply(rep) ==
  IF variant = "ethers" THEN verifyOnReplyEthers(variant, rep, computedHash)
  ELSE verifyOnReply(variant, rep, computedHash)

\* the verify invocation has handled a /verify reply whose body is an object
\* and has not gone further
HandledReply ==
  /\ pc \in {"done", "awaitList"}
  /\ reply.kind = "json"
  /\ ~reply.data.null
  /\ listing = NoListing

\* C33: the outcome of a /verify reply is the outcome of every reply that
\* differs from it in the letter case of the reason only, and a reply whose
\* reason is missing or is not a string does not end in the error outcome.
C33_ReasonCaseAndTypeRobust ==
  HandledReply
  => /\ \A r2 \in CaseVariants(reply) :
          LET e == onVerifyReply(r2)
          IN /\ e.decided = (pc = "done")
             /\ e.decided => e.result.kind = resultDiv.kind
     /\ reply.data.reason.t # "string" => resultDiv.kind # "ServerError"

============================================================================
